---- MODULE Spec2Model ----
(***************************************************************************)
(* A model of the plan optimizer and the discount calculation of the       *)
(* stripe migration analysis (transform/src/calculations.py, main.py).     *)
(*                                                                         *)
(* Money and credit figures that the program holds as Python floats are    *)
(* held here as exact rationals [num, den] with den > 0; int() is the      *)
(* truncation toward zero and math.ceil the ceiling of the rational.       *)
(***************************************************************************)
EXTENDS Integers, Sequences, FiniteSets, TLC

VARIABLES
    pc,            \* position of the run: "ready" before the call, "done" after it
    company_data,  \* the row handed to calculate_scenarios_for_company
    locals,        \* the locals of calculate_scenarios_for_company at its return
    result,        \* the pd.Series calculate_scenarios_for_company returns
    sub_row,       \* the subscription item row of the discount step
    sub_result,    \* the columns the discount step has written for sub_row
    org_row,       \* the organization row handed to calculate_credits
    org_credits    \* the value calculate_credits returns

vars == <<pc, company_data, locals, result, sub_row, sub_result, org_row, org_credits>>

None == "None"

-----------------------------------------------------------------------------
(* Bounds of the explored inputs *)

MaxDelta == 1        \* inputs are taken within MaxDelta of every threshold
MaxCreditsSteps == 8 \* required_credits also ranges over 0, CreditsStep, ...
CreditsStep == 10000
MaxMrrSteps == 4     \* current_mrr also ranges over 0, MrrStep, ...
MrrStep == 250

-----------------------------------------------------------------------------
(* Exact arithmetic standing for the float arithmetic of the program *)

Max(a, b) == IF a >= b THEN a ELSE b

Abs(a) == IF a >= 0 THEN a ELSE -a

RECURSIVE Gcd(_, _)
Gcd(a, b) == IF b = 0 THEN a ELSE Gcd(b, a % b)

\* n / d in lowest terms, d > 0
Rat(n, d) == LET g == Gcd(Abs(n), d) IN [num |-> n \div g, den |-> d \div g]

RatOfInt(n) == [num |-> n, den |-> 1]

RatAdd(a, b) == Rat(a.num * b.den + b.num * a.den, a.den * b.den)

RatSub(a, b) == Rat(a.num * b.den - b.num * a.den, a.den * b.den)

RatMulInt(a, k) == Rat(a.num * k, a.den)

RatLess(a, b) == a.num * b.den < b.num * a.den

RatLeq(a, b) == a.num * b.den <= b.num * a.den

RatEq(a, b) == a.num * b.den = b.num * a.den

\* int(x): truncation toward zero
Trunc(a) == IF a.num >= 0 THEN a.num \div a.den ELSE -((-a.num) \div a.den)

\* math.ceil(k / a) for an integer k and a rational a > 0
CeilDiv(k, a) == -((-(k * a.den)) \div a.num)

RECURSIVE IsPowerOfTwo(_)
IsPowerOfTwo(n) == n = 1 \/ (n > 1 /\ n % 2 = 0 /\ IsPowerOfTwo(n \div 2))

\* a float holds a rational of this size exactly iff its denominator is a power of 2
ExactInFloat(a) == IsPowerOfTwo(a.den)

\* int(x) of a float product whose exact value is a: the truncation of a, except
\* that where a whole value a = N was reached through operands no float holds
\* exactly the product may have stopped just short of N, and int() gives the
\* integer next to N toward zero
IntOfProduct(a, operands_exact) ==
    IF operands_exact \/ a.den # 1 \/ a.num = 0 THEN {Trunc(a)}
    ELSE {a.num, IF a.num > 0 THEN a.num - 1 ELSE a.num + 1}

-----------------------------------------------------------------------------
(* IEEE double arithmetic, where the rounding of a float decides an int().   *)
(* A float is [m, e]: m the bits of its significand, most significant first  *)
(* (<< >> for zero), at most 53 of them, and e the exponent of the last bit. *)

Precision == 53

RECURSIVE Bits(_)
Bits(n) == IF n = 0 THEN << >> ELSE Append(Bits(n \div 2), n % 2)

RECURSIVE BitsToNat(_)
BitsToNat(b) ==
    IF b = << >> THEN 0 ELSE 2 * BitsToNat(SubSeq(b, 1, Len(b) - 1)) + b[Len(b)]

\* the bits of (the number b) * k + carry, for small k and carry
RECURSIVE BitsMulAcc(_, _, _, _)
BitsMulAcc(b, k, carry, low) ==
    IF b = << >> THEN Bits(carry) \o low
    ELSE BitsMulAcc(SubSeq(b, 1, Len(b) - 1), k, (b[Len(b)] * k + carry) \div 2,
                    << (b[Len(b)] * k + carry) % 2 >> \o low)

BitsMulSmall(b, k, carry) == BitsMulAcc(b, k, carry, << >>)

\* round to nearest, ties to even, to Precision bits; sticky: bits were lost below m
RoundToDouble(m, e, sticky) ==
    IF Len(m) <= Precision THEN [m |-> m, e |-> e]
    ELSE LET keep == SubSeq(m, 1, Precision)
             rest == SubSeq(m, Precision + 1, Len(m))
             below == sticky \/ \E i \in 2..Len(rest) : rest[i] = 1
             up == rest[1] = 1 /\ (below \/ keep[Precision] = 1)
             kept == IF up THEN BitsMulSmall(keep, 1, 1) ELSE keep
         IN IF Len(kept) > Precision
            THEN [m |-> SubSeq(kept, 1, Precision), e |-> e + Len(rest) + 1]
            ELSE [m |-> kept, e |-> e + Len(rest)]

\* the quotient bits of rem / b after the point, until m has Precision + 2 bits
RECURSIVE DivideBits(_, _, _, _)
DivideBits(rem, b, m, nfrac) ==
    IF rem = 0 \/ Len(m) >= Precision + 2
    THEN [m |-> m, e |-> -nfrac, sticky |-> rem # 0]
    ELSE LET bit == IF 2 * rem >= b THEN 1 ELSE 0
         IN DivideBits(2 * rem - bit * b, b,
                       IF m = << >> /\ bit = 0 THEN m ELSE Append(m, bit), nfrac + 1)

\* a / b for small positive integers
FloatDiv(a, b) ==
    LET q == DivideBits(a % b, b, Bits(a \div b), 0)
    IN RoundToDouble(q.m, q.e, q.sticky)

\* f * (k / 2^shift), for a small k >= 0
FloatMul(f, k, shift) ==
    IF k = 0 \/ f.m = << >> THEN [m |-> << >>, e |-> 0]
    ELSE RoundToDouble(BitsMulSmall(f.m, k, 0), f.e - shift, FALSE)

\* int(f) for f >= 0
FloatToInt(f) ==
    IF f.e >= 0 THEN BitsToNat(f.m) * 2 ^ f.e
    ELSE IF Len(f.m) + f.e <= 0 THEN 0
    ELSE BitsToNat(SubSeq(f.m, 1, Len(f.m) + f.e))

-----------------------------------------------------------------------------
(* Pricing plans, in the iteration order of the dictionaries *)

Plan(name, price, credits, min_amount, max_org_count) ==
    [name |-> name, price |-> price, credits |-> credits,
     price_per_credit |-> Rat(price, credits),
     min_amount |-> min_amount, max_org_count |-> max_org_count]

BRAND_PLANS ==
    << Plan("starter", 89, 4450, 1000, 1),
       Plan("pro", 199, 14925, 1000, 3),
       Plan("enterprise", 650, 65000, 1000, 5) >>

AGENCY_PLANS ==
    << Plan("intro", 89, 4450, 1000, 10),
       Plan("growth", 199, 14925, 1000, 30),
       Plan("scale", 499, 49900, 1000, 50) >>

Range(s) == {s[i] : i \in DOMAIN s}

-----------------------------------------------------------------------------
(* calculate_scenarios_for_company *)

all_plans(company_type) ==
    IF company_type = "IN_HOUSE" THEN BRAND_PLANS ELSE AGENCY_PLANS

\* max(d, key=...): the first entry, in iteration order, with the largest max_org_count
largest_plan(ap) ==
    LET i == CHOOSE i \in DOMAIN ap :
                 /\ \A j \in DOMAIN ap : ap[j].max_org_count <= ap[i].max_org_count
                 /\ \A j \in 1..(i - 1) : ap[j].max_org_count < ap[i].max_org_count
    IN ap[i]

\* plans with the filter written as a strict comparison
plans_strict_filter(company_type, orgs_count) ==
    LET ap == all_plans(company_type)
        filtered == SelectSeq(ap, LAMBDA p : p.max_org_count > orgs_count)
    IN IF filtered = << >> THEN << largest_plan(ap) >> ELSE filtered

\* the candidate plans: the org-count filter, or its fallback
plans(company_type, orgs_count) ==
    LET ap == all_plans(company_type)
        filtered == SelectSeq(ap, LAMBDA p : p.max_org_count >= orgs_count)
    IN IF filtered = << >> THEN << largest_plan(ap) >> ELSE filtered

\* extra_credits_needed with overage below the minimum purchase rounded down
extra_credits_needed_rounded_down(plan, required_credits) ==
    LET d == Max(0, required_credits - plan.credits)
    IN IF d > 0 /\ d < plan.min_amount THEN 0 ELSE d

\* extra_credits_needed with the minimum purchase applied from zero overage on
extra_credits_needed_floor_at_zero(plan, required_credits) ==
    LET d == Max(0, required_credits - plan.credits)
    IN IF d >= 0 /\ d < plan.min_amount THEN plan.min_amount ELSE d

\* extra_credits_needed without the minimum purchase
extra_credits_needed_no_floor(plan, required_credits) ==
    Max(0, required_credits - plan.credits)

extra_credits_needed(plan, required_credits) ==
    LET d == Max(0, required_credits - plan.credits)
    IN IF d > 0 /\ d < plan.min_amount THEN plan.min_amount ELSE d

least_cost_option(plan, required_credits) ==
    LET extra == extra_credits_needed(plan, required_credits)
        cost == RatAdd(RatOfInt(plan.price), RatMulInt(plan.price_per_credit, extra))
        total_credits == plan.credits + extra
    IN [plan_name |-> plan.name, cost |-> cost, extra_credits |-> extra,
        surplus_credits |-> total_credits - required_credits]

least_cost_options(ps, required_credits) ==
    [i \in DOMAIN ps |-> least_cost_option(ps[i], required_credits)]

\* best_least_cost with the last of the options of least cost taken
best_least_cost_last(options) ==
    LET i == CHOOSE i \in DOMAIN options :
                 /\ \A j \in DOMAIN options : RatLeq(options[i].cost, options[j].cost)
                 /\ \A j \in (i + 1)..Len(options) : RatLess(options[i].cost, options[j].cost)
    IN options[i]

\* best_least_cost with the minimum taken over extra_credits instead of cost
best_least_cost_by_extra(options) ==
    LET i == CHOOSE i \in DOMAIN options :
                 /\ \A j \in DOMAIN options : options[i].extra_credits <= options[j].extra_credits
                 /\ \A j \in 1..(i - 1) : options[i].extra_credits < options[j].extra_credits
    IN options[i]

\* min(options, key=cost): the first option, in order, with the least cost
best_least_cost(options) ==
    LET i == CHOOSE i \in DOMAIN options :
                 /\ \A j \in DOMAIN options : RatLeq(options[i].cost, options[j].cost)
                 /\ \A j \in 1..(i - 1) : RatLess(options[i].cost, options[j].cost)
    IN options[i]

\* suitable_plans with a plan priced exactly at current_mrr taken as suitable
suitable_plans_inclusive(ps, current_mrr) ==
    SelectSeq(ps, LAMBDA p : p.price <= current_mrr)

suitable_plans(ps, current_mrr) ==
    SelectSeq(ps, LAMBDA p : p.price < current_mrr)

\* max(suitable_plans, key=price): the first, in order, with the highest price
most_expensive_plan(ps) ==
    LET i == CHOOSE i \in DOMAIN ps :
                 /\ \A j \in DOMAIN ps : ps[j].price <= ps[i].price
                 /\ \A j \in 1..(i - 1) : ps[j].price < ps[i].price
    IN ps[i]

\* min(plans.items(), key=price): the first, in order, with the lowest price
cheapest_plan(ps) ==
    LET i == CHOOSE i \in DOMAIN ps :
                 /\ \A j \in DOMAIN ps : ps[i].price <= ps[j].price
                 /\ \A j \in 1..(i - 1) : ps[i].price < ps[j].price
    IN ps[i]

\* best_match_base_plan with max() in both branches
best_match_base_plan_always_max(ps, current_mrr) ==
    LET suitable == suitable_plans(ps, current_mrr)
    IN IF suitable # << >> THEN most_expensive_plan(suitable)
       ELSE most_expensive_plan(ps)

\* the base plan of the match, when the if/elif has set one (plans is not empty)
best_match_base_plan(ps, current_mrr) ==
    LET suitable == suitable_plans(ps, current_mrr)
    IN IF suitable # << >> THEN most_expensive_plan(suitable)
       ELSE cheapest_plan(ps)

\* extra_credits_to_match with the remainder multiplied by the credit price
extra_credits_to_match_multiplied(plan, current_mrr) ==
    LET remaining_mrr_cents == current_mrr - plan.price
    IN IF remaining_mrr_cents > 0
       THEN -((-(remaining_mrr_cents * plan.price_per_credit.num))
              \div plan.price_per_credit.den)
       ELSE 0

extra_credits_to_match(plan, current_mrr) ==
    LET remaining_mrr_cents == current_mrr - plan.price
    IN IF remaining_mrr_cents > 0
       THEN CeilDiv(remaining_mrr_cents, plan.price_per_credit)
       ELSE 0

final_monthly_revenue_cents(plan, current_mrr) ==
    LET remaining_mrr_cents == current_mrr - plan.price
    IN IF remaining_mrr_cents > 0
       THEN RatAdd(RatOfInt(plan.price),
                   RatMulInt(plan.price_per_credit, extra_credits_to_match(plan, current_mrr)))
       ELSE RatOfInt(plan.price)

\* the match-MRR locals, with their defaults when no base plan was found
matched_mrr(ps, current_mrr, required_credits) ==
    LET base == best_match_base_plan(ps, current_mrr)
    IN IF ps = << >>
       THEN [match_mrr_plan_name |-> None,
             match_mrr_monthly_revenue |-> RatOfInt(0),
             match_mrr_extra_credits_purchased |-> 0,
             match_mrr_surplus_credits |-> 0]
       ELSE [match_mrr_plan_name |-> base.name,
             match_mrr_monthly_revenue |-> final_monthly_revenue_cents(base, current_mrr),
             match_mrr_extra_credits_purchased |-> extra_credits_to_match(base, current_mrr),
             match_mrr_surplus_credits |->
                 (base.credits + extra_credits_to_match(base, current_mrr)) - required_credits]

scenario_locals(cd) ==
    LET ps == plans(cd.type, cd.orgs_count)
        options == least_cost_options(ps, cd.required_credits)
    IN [plans |-> ps,
        least_cost_options |-> options,
        best_least_cost |-> best_least_cost(options),
        match |-> matched_mrr(ps, cd.current_mrr, cd.required_credits)]

\* compile_results with the cost delta taken from the truncated cost
compile_results_delta_of_int(l, current_mrr) ==
    LET best == l.best_least_cost
        change == RatSub(best.cost, RatOfInt(current_mrr))
    IN [least_cost_plan_name |-> best.plan_name,
        least_cost_mrr |-> Trunc(best.cost),
        least_cost_mrr_change |-> Trunc(best.cost) - current_mrr,
        least_cost_arr_change |-> Trunc(RatMulInt(change, 12)),
        least_cost_extra_credits_purchased |-> best.extra_credits,
        least_cost_surplus_credits |-> best.surplus_credits,
        match_mrr_plan_name |-> l.match.match_mrr_plan_name,
        match_mrr_mrr |-> Trunc(l.match.match_mrr_monthly_revenue),
        match_mrr_extra_credits_purchased |-> l.match.match_mrr_extra_credits_purchased,
        match_mrr_surplus_credits |-> l.match.match_mrr_surplus_credits]

compile_results(l, current_mrr) ==
    LET best == l.best_least_cost
        change == RatSub(best.cost, RatOfInt(current_mrr))
    IN [least_cost_plan_name |-> best.plan_name,
        least_cost_mrr |-> Trunc(best.cost),
        least_cost_mrr_change |-> Trunc(change),
        least_cost_arr_change |-> Trunc(RatMulInt(change, 12)),
        least_cost_extra_credits_purchased |-> best.extra_credits,
        least_cost_surplus_credits |-> best.surplus_credits,
        match_mrr_plan_name |-> l.match.match_mrr_plan_name,
        match_mrr_mrr |-> Trunc(l.match.match_mrr_monthly_revenue),
        match_mrr_extra_credits_purchased |-> l.match.match_mrr_extra_credits_purchased,
        match_mrr_surplus_credits |-> l.match.match_mrr_surplus_credits]

\* int((cost - current_mrr) * 12)
arr_change_outcomes(cost, current_mrr) ==
    LET change == RatSub(cost, RatOfInt(current_mrr))
    IN IntOfProduct(RatMulInt(change, 12), ExactInFloat(change))

-----------------------------------------------------------------------------
(* The rows the optimizer is explored on *)

CompanyTypes == {"IN_HOUSE", "AGENCY", "PARTNER"}

AllPlans == Range(BRAND_PLANS) \cup Range(AGENCY_PLANS)

Deltas == (-MaxDelta)..MaxDelta

\* every ceiling of a plan, and its neighbours
OrgsCounts ==
    {m + d : m \in {0} \cup {p.max_org_count : p \in AllPlans}, d \in Deltas} \cap Nat

\* the required credits at which one plan with overage costs what another costs bare
BreakEvens ==
    {(q.price * p.credits) \div p.price : p \in AllPlans, q \in AllPlans}

\* around every allotment: no overage, overage below, at and above the minimum purchase
RequiredCredits ==
    ( UNION {{p.credits + o + d : o \in {0, p.min_amount}, d \in Deltas} : p \in AllPlans}
      \cup {b + d : b \in BreakEvens, d \in Deltas}
      \cup {k * CreditsStep : k \in 0..MaxCreditsSteps} ) \cap Nat

CurrentMrrs ==
    ( {p.price + d : p \in AllPlans, d \in Deltas}
      \cup {k * MrrStep : k \in 0..MaxMrrSteps} ) \cap Nat

CompanyRows ==
    [type : CompanyTypes, current_mrr : CurrentMrrs,
     required_credits : RequiredCredits, orgs_count : OrgsCounts]

-----------------------------------------------------------------------------
(* The optimizer run: one row in, one result record out *)

Init ==
    /\ pc = "ready"
    /\ company_data \in CompanyRows
    /\ locals = None
    /\ result = None
    /\ sub_row = None
    /\ sub_result = None
    /\ org_row = None
    /\ org_credits = None

calculate_scenarios_for_company ==
    /\ pc = "ready"
    /\ locals' = scenario_locals(company_data)
    /\ \E arr \in arr_change_outcomes(locals'.best_least_cost.cost, company_data.current_mrr) :
          result' = [compile_results(locals', company_data.current_mrr)
                        EXCEPT !.least_cost_arr_change = arr]
    /\ pc' = "done"
    /\ UNCHANGED <<company_data, sub_row, sub_result, org_row, org_credits>>

Next == calculate_scenarios_for_company

Spec == Init /\ [][Next]_vars

-----------------------------------------------------------------------------
(* The discount step of the pipeline.  calculate_coupon_multiplier is imported *)
(* from calculations.py, which does not define it: it is written here from    *)
(* its contract (the discount multiplier engine of the specification).        *)

MaxCoupons == 3      \* a row carries at most MaxCoupons coupon ids

\* an Optional value: << >> is None, <<v>> holds v
Some(v) == << v >>

Coupon(percent_off, amount_off, duration, duration_in_months) ==
    [percent_off |-> percent_off, amount_off |-> amount_off,
     duration |-> duration, duration_in_months |-> duration_in_months]

\* coupons_map = {c["id"]: c for c in coupons}, on a catalog of every kind of coupon
coupons_map ==
    [id \in {"forever10", "forever15", "forever20", "forever100", "once50",
             "repeating6", "repeating12", "repeating_open", "amount500"} |->
        CASE id = "forever10"      -> Coupon(Some(10), << >>, "forever", << >>)
          [] id = "forever15"      -> Coupon(Some(15), << >>, "forever", << >>)
          [] id = "forever20"      -> Coupon(Some(20), << >>, "forever", << >>)
          [] id = "forever100"     -> Coupon(Some(100), << >>, "forever", << >>)
          [] id = "once50"         -> Coupon(Some(50), << >>, "once", << >>)
          [] id = "repeating6"     -> Coupon(Some(30), << >>, "repeating", Some(6))
          [] id = "repeating12"    -> Coupon(Some(25), << >>, "repeating", Some(12))
          [] id = "repeating_open" -> Coupon(Some(40), << >>, "repeating", << >>)
          [] id = "amount500"      -> Coupon(<< >>, Some(500), "forever", << >>)]

\* the ids a row may carry: those of the catalog and one the catalog lacks
CouponIds == DOMAIN coupons_map \cup {"deleted"}

\* is_long_term with one-time coupons taken as eligible too
is_long_term_with_once(coupon) ==
    \/ coupon.duration = "forever"
    \/ coupon.duration = "once"
    \/ /\ coupon.duration = "repeating"
       /\ coupon.duration_in_months # << >>
       /\ coupon.duration_in_months[1] >= 12

\* eligible iff forever, or repeating with duration_in_months present and >= 12
is_long_term(coupon) ==
    \/ coupon.duration = "forever"
    \/ /\ coupon.duration = "repeating"
       /\ coupon.duration_in_months # << >>
       /\ coupon.duration_in_months[1] >= 12

\* the running totals of the loop over coupon_ids, after the whole list
RECURSIVE coupon_totals(_, _)
coupon_totals(coupon_ids, cmap) ==
    IF coupon_ids = << >>
    THEN [total_percent_off |-> 0, total_amount_off |-> 0,
          long_term_count |-> 0, total_count |-> 0]
    ELSE LET n == Len(coupon_ids)
             acc == coupon_totals(SubSeq(coupon_ids, 1, n - 1), cmap)
             id == coupon_ids[n]
         IN IF id \notin DOMAIN cmap THEN acc
            ELSE IF ~is_long_term(cmap[id])
                 THEN [acc EXCEPT !.total_count = @ + 1]
                 ELSE [total_percent_off |-> acc.total_percent_off +
                           (IF cmap[id].percent_off = << >> THEN 0
                            ELSE cmap[id].percent_off[1]),
                       total_amount_off |-> acc.total_amount_off +
                           (IF cmap[id].amount_off = << >> THEN 0
                            ELSE cmap[id].amount_off[1]),
                       long_term_count |-> acc.long_term_count + 1,
                       total_count |-> acc.total_count + 1]

\* the multiplier with the eligible coupons compounded instead of added
RECURSIVE compounded(_, _)
compounded(coupon_ids, cmap) ==
    IF coupon_ids = << >> THEN RatOfInt(1)
    ELSE LET n == Len(coupon_ids)
             rest == compounded(SubSeq(coupon_ids, 1, n - 1), cmap)
             id == coupon_ids[n]
         IN IF id \in DOMAIN cmap /\ is_long_term(cmap[id])
                  /\ cmap[id].percent_off # << >>
            THEN Rat(rest.num * Max(0, 100 - cmap[id].percent_off[1]), rest.den * 100)
            ELSE rest

calculate_coupon_multiplier_compounding(coupon_ids, cmap) ==
    LET t == coupon_totals(coupon_ids, cmap)
    IN [multiplier |-> compounded(coupon_ids, cmap),
        long_term_count |-> t.long_term_count,
        total_count |-> t.total_count]

\* (multiplier, long_term_count, total_count)
calculate_coupon_multiplier(coupon_ids, cmap) ==
    LET t == coupon_totals(coupon_ids, cmap)
    IN [multiplier |-> Rat(Max(0, 100 - t.total_percent_off), 100),
        long_term_count |-> t.long_term_count,
        total_count |-> t.total_count]

RatMul(a, b) == Rat(a.num * b.num, a.den * b.den)

RECURSIVE SeqsUpTo(_, _)
SeqsUpTo(S, n) ==
    IF n = 0 THEN {<< >>}
    ELSE LET shorter == SeqsUpTo(S, n - 1)
         IN shorter \cup {Append(q, x) : q \in {r \in shorter : Len(r) = n - 1}, x \in S}

CouponLists == SeqsUpTo(CouponIds, MaxCoupons)

BaseMrrCents == {0, 8900, 19900}

\* a row of subs_df, or a row of subscription_discounts_df
DiscountRows ==
    [frame : {"subs_df"}, base_mrr_cents : BaseMrrCents, discounts : CouponLists]
    \cup [frame : {"subscription_discounts_df"}, subscription_discounts : CouponLists]

InitDiscounts ==
    /\ pc = "ready"
    /\ sub_row \in DiscountRows
    /\ sub_result = None
    /\ locals = None
    /\ company_data = None
    /\ result = None
    /\ org_row = None
    /\ org_credits = None

apply_item_discount ==
    /\ pc = "ready"
    /\ sub_row.frame = "subs_df"
    /\ locals' = calculate_coupon_multiplier(sub_row.discounts, coupons_map)
    /\ sub_result' =
          [mrr_after_item_discounts |->
               RatMul(RatOfInt(sub_row.base_mrr_cents), locals'.multiplier),
           item_discount_long_term_count |-> locals'.long_term_count,
           item_discount_total_count |-> locals'.total_count]
    /\ pc' = "done"
    /\ UNCHANGED <<sub_row, company_data, result, org_row, org_credits>>

get_subscription_multiplier ==
    /\ pc = "ready"
    /\ sub_row.frame = "subscription_discounts_df"
    /\ locals' = calculate_coupon_multiplier(sub_row.subscription_discounts, coupons_map)
    /\ sub_result' =
          [sub_discount_multiplier |-> locals'.multiplier,
           sub_discount_long_term_count |-> locals'.long_term_count,
           sub_discount_total_count |-> locals'.total_count]
    /\ pc' = "done"
    /\ UNCHANGED <<sub_row, company_data, result, org_row, org_credits>>

NextDiscounts == apply_item_discount \/ get_subscription_multiplier

SpecDiscounts == InitDiscounts /\ [][NextDiscounts]_vars

-----------------------------------------------------------------------------
(* calculate_credits *)

MaxModels == 2       \* a row carries at most MaxModels model ids
MaxPromptLimit == 8  \* prompt_limit ranges over 0..MaxPromptLimit, and 100
MaxInterval == 8     \* chat_interval_in_hours over 0..MaxInterval, 12, 24, 48, or unset

Half == Rat(1, 2)

MODEL_ID_PRICE_MAP ==
    [id \in {"gpt-4o", "chatgpt", "sonar", "google-ai-overview",
             "llama-3-3-70b-instruct", "gpt-4o-search", "claude-sonnet-4",
             "claude-3-5-haiku", "gemini-1-5-flash", "deepseek-r1",
             "gemini-2-5-flash", "google-ai-mode", "grok-2-1212", "gpt-3-5-turbo"} |->
        CASE id = "llama-3-3-70b-instruct" -> Half
          [] id \in {"claude-sonnet-4", "claude-3-5-haiku", "gemini-2-5-flash",
                     "grok-2-1212"} -> RatOfInt(2)
          [] OTHER -> RatOfInt(1)]

\* MODEL_ID_PRICE_MAP.get(mid, 0)
model_price(mid) ==
    IF mid \in DOMAIN MODEL_ID_PRICE_MAP THEN MODEL_ID_PRICE_MAP[mid] ELSE RatOfInt(0)

\* sum(model_prices)
RECURSIVE sum_model_prices(_)
sum_model_prices(model_ids) ==
    IF model_ids = << >> THEN RatOfInt(0)
    ELSE RatAdd(model_price(Head(model_ids)), sum_model_prices(Tail(model_ids)))

\* row.get("chat_interval_in_hours", 24), with 0 replaced by 24
interval_hours(row) ==
    IF row.chat_interval_in_hours = << >> THEN 24
    ELSE IF row.chat_interval_in_hours[1] = 0 THEN 24
    ELSE row.chat_interval_in_hours[1]

\* 24 / interval_hours
runs_per_day(row) == FloatDiv(24, interval_hours(row))

\* runs_per_day * days_in_month
runs_per_month(row) == FloatMul(runs_per_day(row), 30, 0)

\* int(sum(model_prices) * row["prompt_limit"] * runs_per_month); the sum is a
\* whole number of halves, so sum * prompt_limit is exact
calculate_credits_value(row) ==
    LET total == RatMulInt(sum_model_prices(row.model_ids), row.prompt_limit)
    IN FloatToInt(FloatMul(runs_per_month(row), total.num, total.den - 1))

ExploredModelIds ==
    {"gpt-4o", "llama-3-3-70b-instruct", "claude-sonnet-4", "not-a-model"}

ModelIdLists == SeqsUpTo(ExploredModelIds, MaxModels)
                    \cup {<< "gpt-4o", "chatgpt", "llama-3-3-70b-instruct" >>}

PromptLimits == 0..MaxPromptLimit \cup {100}

Intervals == {<< >>} \cup {Some(h) : h \in 0..MaxInterval \cup {12, 24, 48}}

OrganizationRows ==
    [model_ids : ModelIdLists, prompt_limit : PromptLimits,
     chat_interval_in_hours : Intervals]

InitCredits ==
    /\ pc = "ready"
    /\ org_row \in OrganizationRows
    /\ org_credits = None
    /\ company_data = None
    /\ locals = None
    /\ result = None
    /\ sub_row = None
    /\ sub_result = None

calculate_credits ==
    /\ pc = "ready"
    /\ org_credits' = calculate_credits_value(org_row)
    /\ pc' = "done"
    /\ UNCHANGED <<org_row, company_data, locals, result, sub_row, sub_result>>

NextCredits == calculate_credits

SpecCredits == InitCredits /\ [][NextCredits]_vars

-----------------------------------------------------------------------------
(* The properties, stated from the rows and the plan tables alone *)

Done == pc = "done"

SegmentPlans == Range(all_plans(company_data.type))

\* the plans of the segment whose ceiling admits the row's org count
Qualifying == {p \in SegmentPlans : p.max_org_count >= company_data.orgs_count}

HighestCeiling ==
    {p \in SegmentPlans : \A q \in SegmentPlans : q.max_org_count <= p.max_org_count}

Candidates == IF Qualifying # {} THEN Qualifying ELSE HighestCeiling

\* extra credits of a tier by cases on d = required_credits - included credits
ExtraByCases(p) ==
    LET d == company_data.required_credits - p.credits
    IN IF d <= 0 THEN 0 ELSE IF d < p.min_amount THEN p.min_amount ELSE d

\* price + extra x price_per_credit, as one fraction over the included credits
CostByCases(p) == Rat(p.price * p.credits + ExtraByCases(p) * p.price, p.credits)

ReportedLeastCost == {p \in Candidates : p.name = result.least_cost_plan_name}

ReportedMatch == {p \in Candidates : p.name = result.match_mrr_plan_name}

Suitable == {p \in Candidates : p.price < company_data.current_mrr}

\* C1: the plan the least-cost scenario reports is a candidate whose cost is
\* less than or equal to the cost of every other candidate.
C1_LeastCostIsMinimum ==
    Done => \E p \in ReportedLeastCost :
                /\ \A q \in Candidates : RatLeq(CostByCases(p), CostByCases(q))
                /\ RatEq(locals.best_least_cost.cost, CostByCases(p))
                /\ result.least_cost_mrr = Trunc(CostByCases(p))

\* a run where the reported plan buys overage and still beats a cheaper-priced
\* candidate and a dearer one
C1_Witness ==
    /\ Done
    /\ result.least_cost_extra_credits_purchased > 0
    /\ \E p \in ReportedLeastCost :
          /\ \E q \in Candidates : q.price < p.price /\ RatLess(CostByCases(p), CostByCases(q))
          /\ \E q \in Candidates : q.price > p.price /\ RatLess(CostByCases(p), CostByCases(q))

\* C2: a tier whose included credits cover required_credits buys 0 extra credits
\* and costs its base price; with required_credits = 0 the result has 0 extra
\* credits, the chosen plan's price as cost and its included credits as surplus.
C2_NoOverageWithinAllotment ==
    Done =>
        /\ \A i \in DOMAIN locals.plans :
              company_data.required_credits <= locals.plans[i].credits =>
                  /\ locals.least_cost_options[i].extra_credits = 0
                  /\ locals.least_cost_options[i].cost = RatOfInt(locals.plans[i].price)
        /\ company_data.required_credits = 0 =>
              /\ result.least_cost_extra_credits_purchased = 0
              /\ \E p \in ReportedLeastCost :
                    /\ result.least_cost_mrr = p.price
                    /\ result.least_cost_surplus_credits = p.credits

\* a run with required_credits = 0 and more than one candidate
C2_Witness ==
    /\ Done
    /\ company_data.required_credits = 0
    /\ Len(locals.plans) >= 2
    /\ result.least_cost_surplus_credits > 0

\* C3: the extra credits of a tier are 0 when d <= 0, min_amount when
\* 0 < d < min_amount and d when d >= min_amount, so never strictly between 0
\* and min_amount (d = required_credits - included credits).
C3_MinimumPurchaseFloor ==
    Done =>
        /\ \A i \in DOMAIN locals.plans :
              LET p == locals.plans[i]
                  e == locals.least_cost_options[i].extra_credits
                  d == company_data.required_credits - p.credits
              IN /\ d <= 0 => e = 0
                 /\ (0 < d /\ d < p.min_amount) => e = p.min_amount
                 /\ d >= p.min_amount => e = d
                 /\ ~(0 < e /\ e < p.min_amount)
        /\ \E p \in ReportedLeastCost :
              /\ result.least_cost_extra_credits_purchased = ExtraByCases(p)
              /\ ~(0 < result.least_cost_extra_credits_purchased
                   /\ result.least_cost_extra_credits_purchased < p.min_amount)

\* a run where the reported plan needed less than min_amount and bought min_amount
C3_Witness ==
    /\ Done
    /\ \E p \in ReportedLeastCost :
          /\ company_data.required_credits - p.credits > 0
          /\ company_data.required_credits - p.credits < p.min_amount
          /\ result.least_cost_extra_credits_purchased = p.min_amount

\* C4: the candidate set is never empty; it is exactly the plans whose
\* max_org_count >= orgs_count when there is one, and otherwise the single plan
\* with the highest max_org_count; both scenarios report a candidate.
C4_CandidateSelection ==
    Done =>
        /\ Len(locals.plans) >= 1
        /\ Range(locals.plans) = Candidates
        /\ Len(locals.plans) = Cardinality(Candidates)
        /\ ReportedLeastCost # {} /\ ReportedMatch # {}
        /\ Qualifying # {} =>
              \A p \in ReportedLeastCost \cup ReportedMatch :
                  p.max_org_count >= company_data.orgs_count
        /\ Qualifying = {} =>
              /\ Len(locals.plans) = 1
              /\ \A q \in SegmentPlans : q.max_org_count <= locals.plans[1].max_org_count
              /\ result.least_cost_plan_name = locals.plans[1].name
              /\ result.match_mrr_plan_name = locals.plans[1].name

\* a run where no plan admits the org count and both scenarios fall back
C4_Witness ==
    /\ Done
    /\ Qualifying = {}
    /\ \A p \in SegmentPlans : result.least_cost_plan_name = p.name =>
          p.max_org_count < company_data.orgs_count

\* C5: when a candidate is priced strictly below current_mrr, the match-revenue
\* plan is the highest-priced of the candidates strictly below current_mrr; when
\* current_mrr exceeds every price of the segment it is the most expensive plan.
C5_MatchPicksHighestSuitable ==
    Done =>
        /\ Suitable # {} =>
              \E p \in ReportedMatch :
                  /\ p \in Suitable
                  /\ \A q \in Suitable : q.price <= p.price
        /\ (\A q \in SegmentPlans : q.price < company_data.current_mrr) =>
              \E p \in ReportedMatch : \A q \in SegmentPlans : q.price <= p.price

\* a run where a candidate is priced exactly at current_mrr and a cheaper one is chosen
C5_Witness ==
    /\ Done
    /\ \E q \in Candidates : q.price = company_data.current_mrr
    /\ \E p \in ReportedMatch : p.price < company_data.current_mrr

BelowEveryTier == \A q \in SegmentPlans : company_data.current_mrr < q.price

CheapestOfSegment == {p \in SegmentPlans : \A q \in SegmentPlans : p.price <= q.price}

CheapestCandidate == {p \in Candidates : \A q \in Candidates : p.price <= q.price}

\* C6 as claimed: with current_mrr below every price of the segment the
\* match-revenue plan is the cheapest tier of the segment, with 0 extra credits
\* and the tier's price as revenue.
C6_CheapestOfSegment ==
    (Done /\ BelowEveryTier) =>
        \E p \in CheapestOfSegment :
            /\ result.match_mrr_plan_name = p.name
            /\ result.match_mrr_extra_credits_purchased = 0
            /\ result.match_mrr_mrr = p.price

\* C6 amended: with current_mrr below every price of the segment the
\* match-revenue plan is the cheapest candidate plan, with 0 extra credits and
\* that plan's price as revenue; it is the cheapest tier of the segment when
\* that tier's max_org_count admits the org count.
C6_CheapestCandidate ==
    (Done /\ BelowEveryTier) =>
        /\ \E p \in CheapestCandidate :
              /\ result.match_mrr_plan_name = p.name
              /\ result.match_mrr_extra_credits_purchased = 0
              /\ result.match_mrr_mrr = p.price
              /\ locals.match.match_mrr_monthly_revenue = RatOfInt(p.price)
        /\ \A p \in CheapestOfSegment :
              p.max_org_count >= company_data.orgs_count =>
                  result.match_mrr_plan_name = p.name

\* a run below every tier where the org count has removed the cheapest tier
C6_Witness ==
    /\ Done
    /\ BelowEveryTier
    /\ \A p \in CheapestOfSegment : result.match_mrr_plan_name # p.name

\* C7: the match-revenue cost is never below current_mrr; when the chosen plan
\* is priced below current_mrr, the extra credits are the least n >= 1 with
\* price + n x price_per_credit >= current_mrr, so the cost exceeds current_mrr
\* by less than one price_per_credit.
C7_NeverUnderMatches ==
    Done =>
        LET mrr == RatOfInt(company_data.current_mrr)
            cost == locals.match.match_mrr_monthly_revenue
            n == result.match_mrr_extra_credits_purchased
        IN /\ RatLeq(mrr, cost)
           /\ result.match_mrr_mrr >= company_data.current_mrr
           /\ \A p \in ReportedMatch :
                 LET ppc == Rat(p.price, p.credits)
                     with(k) == Rat(p.price * p.credits + k * p.price, p.credits)
                 IN p.price < company_data.current_mrr =>
                       /\ n >= 1
                       /\ RatLeq(mrr, with(n))
                       /\ RatLess(with(n - 1), mrr)
                       /\ RatEq(cost, with(n))
                       /\ RatLess(RatSub(cost, mrr), ppc)

\* a run where the chosen plan is below current_mrr and overage fills the gap
C7_Witness ==
    /\ Done
    /\ \E p \in ReportedMatch :
          /\ p.price < company_data.current_mrr
          /\ result.match_mrr_extra_credits_purchased >= p.credits \div p.price
          /\ result.match_mrr_surplus_credits < 0

\* C8: an IN_HOUSE account with required_credits = 50000 gets the least-cost
\* plan 'enterprise' with 1000 extra credits, cost 509 and surplus 900.
C8_EndToEndExample ==
    (Done /\ company_data.type = "IN_HOUSE" /\ company_data.required_credits = 50000) =>
        /\ result.least_cost_plan_name = "enterprise"
        /\ result.least_cost_extra_credits_purchased = 1000
        /\ result.least_cost_mrr = 509
        /\ result.least_cost_surplus_credits = 900

-----------------------------------------------------------------------------
(* The properties of the discount step, stated from the row and the catalog *)

RowCouponIds ==
    IF sub_row.frame = "subs_df" THEN sub_row.discounts
    ELSE sub_row.subscription_discounts

InCatalog(id) == id \in DOMAIN coupons_map

Eligible(id) ==
    /\ InCatalog(id)
    /\ \/ coupons_map[id].duration = "forever"
       \/ /\ coupons_map[id].duration = "repeating"
          /\ coupons_map[id].duration_in_months # << >>
          /\ coupons_map[id].duration_in_months[1] >= 12

PercentOff(id) ==
    IF coupons_map[id].percent_off = << >> THEN 0 ELSE coupons_map[id].percent_off[1]

\* S: the plain sum of percent_off over the eligible coupons of a list
RECURSIVE SumPercentOff(_)
SumPercentOff(ids) ==
    IF ids = << >> THEN 0
    ELSE (IF Eligible(Head(ids)) THEN PercentOff(Head(ids)) ELSE 0)
         + SumPercentOff(Tail(ids))

EligibleCount(ids) == Cardinality({i \in DOMAIN ids : Eligible(ids[i])})

InCatalogCount(ids) == Cardinality({i \in DOMAIN ids : InCatalog(ids[i])})

\* C9: the multiplier the coupon engine returns is max(0, 1 - S/100) for the
\* additive sum S of percent_off over the eligible coupons; it lies in [0, 1],
\* is (1, 0, 0) for an empty list, 0.8 for one forever coupon of 20% and 0.75
\* for forever coupons of 10% and 15%.
C9_AdditiveClampedMultiplier ==
    Done =>
        LET m == locals.multiplier
            S == SumPercentOff(RowCouponIds)
        IN /\ RatEq(m, Rat(Max(0, 100 - S), 100))
           /\ RatLeq(RatOfInt(0), m) /\ RatLeq(m, RatOfInt(1))
           /\ RowCouponIds = << >> =>
                 /\ m = RatOfInt(1)
                 /\ locals.long_term_count = 0
                 /\ locals.total_count = 0
           /\ RowCouponIds = << "forever20" >> => m = Rat(8, 10)
           /\ RowCouponIds = << "forever10", "forever15" >> => m = Rat(75, 100)
           /\ sub_row.frame = "subscription_discounts_df" =>
                 sub_result.sub_discount_multiplier = m
           /\ sub_row.frame = "subs_df" =>
                 RatEq(sub_result.mrr_after_item_discounts,
                       Rat(sub_row.base_mrr_cents * Max(0, 100 - S), 100))

\* a run where two eligible coupons add up to more than 100% and the multiplier is 0
C9_Witness ==
    /\ Done
    /\ EligibleCount(RowCouponIds) >= 2
    /\ SumPercentOff(RowCouponIds) > 100
    /\ locals.multiplier = RatOfInt(0)

\* C10: every id of the catalog counts toward total_count and no other id
\* does; only forever coupons and repeating coupons of 12 months or more count
\* toward long_term_count and the multiplier, so dropping every other id from
\* the list changes neither; long_term_count <= total_count.
C10_EligibilityGating ==
    Done =>
        LET ids == RowCouponIds
            kept == SelectSeq(ids, Eligible)
            only == calculate_coupon_multiplier(kept, coupons_map)
        IN /\ locals.total_count = InCatalogCount(ids)
           /\ locals.long_term_count = EligibleCount(ids)
           /\ locals.long_term_count <= locals.total_count
           /\ locals.multiplier = only.multiplier
           /\ locals.long_term_count = only.long_term_count
           /\ \A id \in {"once50", "repeating6", "repeating_open", "deleted"} :
                 ~Eligible(id)
           /\ sub_row.frame = "subscription_discounts_df" =>
                 /\ sub_result.sub_discount_total_count = InCatalogCount(ids)
                 /\ sub_result.sub_discount_long_term_count = EligibleCount(ids)
           /\ sub_row.frame = "subs_df" =>
                 /\ sub_result.item_discount_total_count = InCatalogCount(ids)
                 /\ sub_result.item_discount_long_term_count = EligibleCount(ids)

\* a run over a one-time coupon, an id the catalog lacks and a forever coupon
C10_Witness ==
    /\ Done
    /\ \E i, j, k \in DOMAIN RowCouponIds :
          /\ RowCouponIds[i] \in {"once50", "repeating6"}
          /\ RowCouponIds[j] = "deleted"
          /\ RowCouponIds[k] = "forever20"
    /\ locals.total_count = 2
    /\ locals.long_term_count = 1
    /\ locals.multiplier = Rat(8, 10)

-----------------------------------------------------------------------------
(* The properties of calculate_credits, stated from the row and the price map *)

\* the interval of the row, 24 when it is 0 or unset
IntervalOr24 ==
    IF org_row.chat_interval_in_hours = << >> \/ org_row.chat_interval_in_hours = << 0 >>
    THEN 24 ELSE org_row.chat_interval_in_hours[1]

\* twice the sum of the prices of the row's model ids, unknown ids counting 0
RECURSIVE TwicePriceSum(_)
TwicePriceSum(ids) ==
    IF ids = << >> THEN 0
    ELSE (CASE Head(ids) \notin DOMAIN MODEL_ID_PRICE_MAP -> 0
            [] Head(ids) = "llama-3-3-70b-instruct" -> 1
            [] Head(ids) \in {"claude-sonnet-4", "claude-3-5-haiku",
                              "gemini-2-5-flash", "grok-2-1212"} -> 4
            [] OTHER -> 2)
         + TwicePriceSum(Tail(ids))

\* (sum of prices) x volume x (24 / interval) x 30
ExactCredits ==
    Rat(TwicePriceSum(org_row.model_ids) * org_row.prompt_limit * 24 * 30,
        2 * IntervalOr24)

\* C11: calculate_credits returns (sum of the prices of model_ids) x volume x
\* (24 / interval) x 30, with unknown ids counting 0 and an interval of 0 or
\* unset replaced by 24; the function returns an int, so the claim is read
\* as the whole part of that product.
C11_CreditsFormula ==
    Done => org_credits = Trunc(ExactCredits)

-----------------------------------------------------------------------------
(* Further properties of the optimizer *)

\* the position of a plan in the iteration order of its segment's dictionary
CatalogIndex(p) ==
    CHOOSE i \in DOMAIN all_plans(company_data.type) :
        all_plans(company_data.type)[i].name = p.name

\* C12: of the candidates with the least cost, the least-cost scenario reports
\* the one that comes first in the catalog's iteration order; the reported plan
\* is fixed by the catalog, the segment, orgs_count and required_credits.
C12_TieFirstInCatalogOrder ==
    Done => \E p \in ReportedLeastCost :
                /\ Cardinality(ReportedLeastCost) = 1
                /\ \A q \in Candidates \ {p} :
                      \/ RatLess(CostByCases(p), CostByCases(q))
                      \/ /\ RatEq(CostByCases(p), CostByCases(q))
                         /\ CatalogIndex(p) < CatalogIndex(q)

\* a run where two candidates tie for the least cost and the earlier one is reported
C12_Witness ==
    /\ Done
    /\ \E p \in ReportedLeastCost :
          \E q \in Candidates :
              /\ q # p
              /\ RatEq(CostByCases(p), CostByCases(q))
              /\ CatalogIndex(p) < CatalogIndex(q)
              /\ \A r \in Candidates : RatLeq(CostByCases(p), CostByCases(r))

\* C13 as claimed: the emitted cost delta is the emitted cost minus current_mrr.
C13_DeltaOfEmittedCost ==
    Done => result.least_cost_mrr_change = result.least_cost_mrr - company_data.current_mrr

\* C13 amended: the emitted cost delta is int(cost - current_mrr) of the
\* untruncated cost; it is the emitted cost minus current_mrr when the cost is
\* whole or not below current_mrr, and one more than that when the cost is
\* fractional and below current_mrr.
C13_DeltaTruncatedSeparately ==
    Done =>
        LET cost == locals.best_least_cost.cost
            mrr == company_data.current_mrr
            emitted == result.least_cost_mrr - mrr
        IN /\ result.least_cost_mrr = Trunc(cost)
           /\ result.least_cost_mrr_change = Trunc(RatSub(cost, RatOfInt(mrr)))
           /\ (cost.den = 1 \/ RatLeq(RatOfInt(mrr), cost)) =>
                 result.least_cost_mrr_change = emitted
           /\ (cost.den # 1 /\ RatLess(cost, RatOfInt(mrr))) =>
                 result.least_cost_mrr_change = emitted + 1

\* a run where the cost is fractional and below current_mrr
C13_Witness ==
    /\ Done
    /\ locals.best_least_cost.cost.den # 1
    /\ RatLess(locals.best_least_cost.cost, RatOfInt(company_data.current_mrr))
    /\ result.least_cost_mrr_change < 0

\* C14: the extra credits of the match-revenue scenario are 0 or at least the
\* chosen plan's min_amount.
C14_MatchOverageInMinimumIncrements ==
    Done => \A p \in ReportedMatch :
                \/ result.match_mrr_extra_credits_purchased = 0
                \/ result.match_mrr_extra_credits_purchased >= p.min_amount

\* C15: least_cost_surplus_credits is never negative: the least-cost scenario
\* buys at least the required credits.
C15_LeastCostSurplusNonNegative ==
    Done =>
        /\ result.least_cost_surplus_credits >= 0
        /\ \A p \in ReportedLeastCost :
              /\ p.credits + result.least_cost_extra_credits_purchased
                     >= company_data.required_credits
              /\ result.least_cost_surplus_credits =
                     p.credits + result.least_cost_extra_credits_purchased
                         - company_data.required_credits

\* a run where the least-cost plan needs overage and the match-revenue surplus
\* is negative
C15_Witness ==
    /\ Done
    /\ result.least_cost_extra_credits_purchased > 0
    /\ result.least_cost_surplus_credits >= 0
    /\ result.match_mrr_surplus_credits < 0

====
